---------------------------- MODULE Spec2Model ----------------------------
(***************************************************************************)
(* Model of src/main.py, the VWRL strategy dashboard: one Streamlit script *)
(* run downloads a daily price table, normalises it, computes RSI(14),     *)
(* Bollinger Bands(20, 2) and the drawdown from the running all-time high, *)
(* evaluates the buy signal, mails an alert when the last row's signal is  *)
(* true, and renders the chart and the buy-signal listing.                 *)
(*                                                                         *)
(* Numbers.  The program computes in float64.  The model computes in fixed *)
(* point: every price and every indicator value is an integer number of    *)
(* 1/Scale units, and every division rounds down.  pandas' NaN is the      *)
(* value NaN, which no price or indicator can take.                        *)
(***************************************************************************)
EXTENDS Integers, Sequences, FiniteSets

\* ---- bounds of the model ------------------------------------------------
\* Fixed-point resolution: values are integers counting 1/Scale.
Scale == 100
\* Longest clean history the supplier returns before the rows that vary.
MaxPrefix == 19
\* Number of freely chosen rows at the end of a downloaded table.
MaxTail == 2
\* Number of script runs (Streamlit reruns) of one server process.
MaxRuns == 3

\* ---- program constants --------------------------------------------------
RSI_WINDOW == 14
BB_WINDOW == 20
BB_DEV == 2
RSI_LIMIT == 30
DRAWDOWN_LIMIT == -20
PERCENT == 100

\* pandas' missing value (NaN), as tested by isnull() and dropped by dropna().
NaN == -1000000

TICKER == "VWRL.AS"

IsNaN(x) == x = NaN

\* Comparison of two float columns' cells: any comparison with NaN is False.
Lt(a, b) == ~IsNaN(a) /\ ~IsNaN(b) /\ a < b

Last(s) == s[Len(s)]

\* ---- the raw table the data supplier returns ----------------------------
PriceCols == {"Open", "High", "Low", "Close", "Volume"}

\* Column labels as yf.download may deliver them, after the MultiIndex
\* flattening of line 48: plain, ticker-qualified, or without a close column.
PlainLabels == PriceCols
QualifiedLabels == {"Open_VWRL.AS", "High_VWRL.AS", "Low_VWRL.AS",
                    "Close_VWRL.AS", "Volume_VWRL.AS"}
NoCloseLabels == {"Open", "High", "Low", "Volume"}
Labelings == {PlainLabels, QualifiedLabels, NoCloseLabels}

\* df.rename(columns=column_map): a ticker-qualified label becomes canonical.
column_map(label) ==
    CASE label = "Close_VWRL.AS"  -> "Close"
      [] label = "Open_VWRL.AS"   -> "Open"
      [] label = "High_VWRL.AS"   -> "High"
      [] label = "Low_VWRL.AS"    -> "Low"
      [] label = "Volume_VWRL.AS" -> "Volume"
      [] OTHER                    -> label

Rename(labels) == {column_map(l) : l \in labels}

\* One downloaded row: its index entry (the date, a day number) and OHLCV.
RawRow(date, close, volume) ==
    [Date |-> date, Open |-> close, High |-> close, Low |-> close,
     Close |-> close, Volume |-> volume]

\* Closing prices the varying rows take.
CloseVals == {60 * Scale, 78 * Scale, 100 * Scale, 110 * Scale}
PrefixClose == 100 * Scale

\* The varying rows: a regular next-day row with any of the closes, a row
\* without prices, a row with a price and no volume, a row repeating the
\* previous date, and a row dated before the previous one.
TailRows ==
    {[Close |-> c, Volume |-> 1, Step |-> 1] : c \in CloseVals}
    \cup {[Close |-> NaN, Volume |-> NaN, Step |-> 1],
          [Close |-> 78 * Scale, Volume |-> NaN, Step |-> 1],
          [Close |-> 60 * Scale, Volume |-> 1, Step |-> 0],
          [Close |-> 60 * Scale, Volume |-> 1, Step |-> -1]}

Tails == UNION {[1..k -> TailRows] : k \in 0..MaxTail}

PrefixLens == {0, MaxPrefix \div 2, MaxPrefix - 1, MaxPrefix}

RECURSIVE StepSum(_, _)
StepSum(t, j) == IF j = 0 THEN 0 ELSE StepSum(t, j - 1) + t[j].Step

\* The day before the first day of a history; day numbers stay positive.
DayZero == MaxTail

\* A downloaded table: p regular days at PrefixClose, then the rows of t.
RawRows(p, t) ==
    [i \in 1..(p + Len(t)) |->
        IF i <= p THEN RawRow(DayZero + i, PrefixClose, 1)
        ELSE RawRow(DayZero + p + StepSum(t, i - p),
                    t[i - p].Close, t[i - p].Volume)]

RawTables ==
    {[labels |-> l, rows |-> RawRows(p, t)] :
        l \in Labelings, p \in PrefixLens, t \in Tails}

NoTable == [labels |-> {}, rows |-> <<>>]

\* ---- get_data: validation and normalisation (lines 44-73) ---------------
HasNull(row) ==
    \/ IsNaN(row.Open) \/ IsNaN(row.High) \/ IsNaN(row.Low)
    \/ IsNaN(row.Close) \/ IsNaN(row.Volume)

KeepRow(row) == ~HasNull(row)

\* df.dropna(inplace=True), line 65: dropna() without a subset removes every
\* row that has a NaN in any column.
dropna(rows) == SelectSeq(rows, KeepRow)

\* A plausible slip: the check of line 62 left out.
AllCloseNullUnchecked(rows) == FALSE

\* The check of line 62: every Close is NaN.
AllCloseNull(rows) == \A i \in 1..Len(rows) : IsNaN(rows[i].Close)

\* df[['Close']].squeeze(), lines 67-71: a frame of one row and one column
\* squeezes to a scalar, whose ndim is 0; any other length gives a Series.
SqueezeNdim(rows) == IF Len(rows) = 1 THEN 0 ELSE 1

\* The outcome of lines 44-73 on a downloaded table: the error raised (or
\* "none") and the frame left for the indicator computation.
Normalized(table) ==
    IF table.rows = <<>> THEN
        [error |-> "ValueError: Downloaded data is empty", rows |-> <<>>]
    ELSE IF "Close" \notin Rename(table.labels) THEN
        [error |-> "ValueError: 'Close' column is missing", rows |-> <<>>]
    ELSE IF AllCloseNull(table.rows) THEN
        [error |-> "ValueError: All Close values are NaN", rows |-> <<>>]
    ELSE IF SqueezeNdim(dropna(table.rows)) # 1 THEN
        [error |-> "ValueError: Expected 1D Series", rows |-> <<>>]
    ELSE [error |-> "none", rows |-> dropna(table.rows)]

\* ---- get_data: the indicators (lines 76-83) -----------------------------
Closes(rows) == [i \in 1..Len(rows) |-> rows[i].Close]

\* close.diff(1), split into gains and losses; the first difference is NaN
\* and counts as 0 in both.
UpDirection(close) ==
    [i \in 1..Len(close) |->
        IF i > 1 /\ close[i] > close[i - 1] THEN close[i] - close[i - 1] ELSE 0]

DownDirection(close) ==
    [i \in 1..Len(close) |->
        IF i > 1 /\ close[i] < close[i - 1] THEN close[i - 1] - close[i] ELSE 0]

\* ewm(alpha=1/window, adjust=False).mean(): y[1] = x[1],
\* y[i] = (1 - alpha) * y[i-1] + alpha * x[i].
RECURSIVE Ewm(_, _)
Ewm(xs, n) ==
    IF n = 0 THEN <<>>
    ELSE IF n = 1 THEN <<xs[1]>>
    ELSE LET prev == Ewm(xs, n - 1)
         IN  Append(prev, ((RSI_WINDOW - 1) * prev[n - 1] + xs[n]) \div RSI_WINDOW)

\* RSIIndicator(close, window=14).rsi(): NaN until 14 observations exist
\* (min_periods), 100 where the average loss is 0, otherwise
\* 100 - 100 / (1 + emaup / emadn).
rsi(close) ==
    LET emaup == Ewm(UpDirection(close), Len(close))
        emadn == Ewm(DownDirection(close), Len(close))
    IN  [i \in 1..Len(close) |->
            IF i < RSI_WINDOW THEN NaN
            ELSE IF emadn[i] = 0 THEN PERCENT * Scale
            ELSE PERCENT * Scale
                 - (PERCENT * Scale * emadn[i]) \div (emaup[i] + emadn[i])]

RECURSIVE SumSeq(_, _, _)
SumSeq(xs, lo, hi) == IF lo > hi THEN 0 ELSE xs[hi] + SumSeq(xs, lo, hi - 1)

\* The largest r with r * r <= x, searched between lo and hi.
RECURSIVE IsqrtIn(_, _, _)
IsqrtIn(x, lo, hi) ==
    IF lo >= hi THEN lo
    ELSE LET mid == (lo + hi + 1) \div 2
         IN  IF mid * mid <= x THEN IsqrtIn(x, mid, hi)
             ELSE IsqrtIn(x, lo, mid - 1)

Isqrt(x) == IsqrtIn(x, 0, 200 * Scale)

\* close.rolling(20).mean(): NaN until the window is full.
bollinger_mavg(close) ==
    [i \in 1..Len(close) |->
        IF i < BB_WINDOW THEN NaN
        ELSE SumSeq(close, i - BB_WINDOW + 1, i) \div BB_WINDOW]

\* close.rolling(20).std(ddof=0): the population standard deviation.
bollinger_mstd(close) ==
    LET mavg == bollinger_mavg(close)
    IN  [i \in 1..Len(close) |->
            IF i < BB_WINDOW THEN NaN
            ELSE LET sq == [j \in 1..Len(close) |->
                               (close[j] - mavg[i]) * (close[j] - mavg[i])]
                 IN  Isqrt(SumSeq(sq, i - BB_WINDOW + 1, i) \div BB_WINDOW)]

bollinger_lband(close) ==
    LET mavg == bollinger_mavg(close)
        mstd == bollinger_mstd(close)
    IN  [i \in 1..Len(close) |->
            IF IsNaN(mavg[i]) THEN NaN ELSE mavg[i] - BB_DEV * mstd[i]]

bollinger_hband(close) ==
    LET mavg == bollinger_mavg(close)
        mstd == bollinger_mstd(close)
    IN  [i \in 1..Len(close) |->
            IF IsNaN(mavg[i]) THEN NaN ELSE mavg[i] + BB_DEV * mstd[i]]

\* A plausible slip: the maximum restarts at every rise of the close.
RECURSIVE cummax_restarting(_, _)
cummax_restarting(close, n) ==
    IF n = 0 THEN <<>>
    ELSE IF n = 1 THEN <<close[1]>>
    ELSE LET prev == cummax_restarting(close, n - 1)
         IN  Append(prev, IF close[n] > close[n - 1] THEN close[n] ELSE prev[n - 1])

\* close_series.cummax(), line 82.
RECURSIVE cummax(_, _)
cummax(close, n) ==
    IF n = 0 THEN <<>>
    ELSE IF n = 1 THEN <<close[1]>>
    ELSE LET prev == cummax(close, n - 1)
         IN  Append(prev, IF close[n] > prev[n - 1] THEN close[n] ELSE prev[n - 1])

\* (close_series - df['ATH']) / df['ATH'] * 100, line 83; 0 / 0 is NaN.
Drawdown(close, ath) ==
    IF ath = 0 THEN NaN ELSE ((close - ath) * PERCENT * Scale) \div ath

\* Lines 76-83: the frame with its six indicator columns.
WithIndicators(rows) ==
    LET close == Closes(rows)
        RSI == rsi(close)
        BBL == bollinger_lband(close)
        BBM == bollinger_mavg(close)
        BBU == bollinger_hband(close)
        ATH == cummax(close, Len(close))
    IN  [i \in 1..Len(rows) |->
            [Date |-> rows[i].Date, Open |-> rows[i].Open, High |-> rows[i].High,
             Low |-> rows[i].Low, Close |-> rows[i].Close,
             Volume |-> rows[i].Volume,
             RSI |-> RSI[i], BBL |-> BBL[i], BBM |-> BBM[i], BBU |-> BBU[i],
             ATH |-> ATH[i], Drawdown |-> Drawdown(close[i], ATH[i])]]

\* ---- get_data: warm-up rows and the signal (lines 88-106) ---------------
HasIndicators(row) ==
    ~IsNaN(row.RSI) /\ ~IsNaN(row.BBL) /\ ~IsNaN(row.Drawdown)

\* A plausible slip: no dropna at line 93.
dropna_nothing(rows) == rows

\* df.dropna(subset=['RSI', 'BBL', 'Drawdown']), line 93.
dropna_indicators(rows) == SelectSeq(rows, HasIndicators)

\* A plausible slip: any() in place of all() in line 101.
BuySignalAny(row) ==
    \/ Lt(row.RSI, RSI_LIMIT * Scale)
    \/ Lt(row.Close, row.BBL)
    \/ Lt(row.Drawdown, DRAWDOWN_LIMIT * Scale)

\* Lines 96-102 for one row: the three conditions, all of them required.
BuySignal(row) ==
    /\ Lt(row.RSI, RSI_LIMIT * Scale)
    /\ Lt(row.Close, row.BBL)
    /\ Lt(row.Drawdown, DRAWDOWN_LIMIT * Scale)

WithSignal(rows) ==
    [i \in 1..Len(rows) |->
        [Date |-> rows[i].Date, Open |-> rows[i].Open, High |-> rows[i].High,
         Low |-> rows[i].Low, Close |-> rows[i].Close, Volume |-> rows[i].Volume,
         RSI |-> rows[i].RSI, BBL |-> rows[i].BBL, BBM |-> rows[i].BBM,
         BBU |-> rows[i].BBU, ATH |-> rows[i].ATH,
         Drawdown |-> rows[i].Drawdown, BuySignal |-> BuySignal(rows[i])]]

\* Lines 88-106: the table get_data returns.
SignalTable(rows) == WithSignal(dropna_indicators(rows))

\* f"{price:.2f}", line 112: the price in hundredths, rounded to the nearest.
Format2f(price) == (price * PERCENT + Scale \div 2) \div Scale

\* A plausible slip: no try/except around the SMTP calls.
send_email_uncaught(signal_date, price, ok) ==
    [msg    |-> [ticker |-> TICKER, date |-> signal_date, price |-> price,
                 body_price |-> Format2f(price), test_mode |-> FALSE],
     shown  |-> "success: Email sent",
     raised |-> ~ok]

\* ---- send_email (lines 109-123) ------------------------------------------
\* The call send_email(signal_date, price, test_mode=False) when the mail
\* transport succeeds (ok) or fails: the message composed, what the page
\* shows, and whether an exception leaves the function.  The try/except of
\* lines 117-123 turns a transport failure into st.error and returns.
send_email(signal_date, price, ok) ==
    [msg    |-> [ticker |-> TICKER, date |-> signal_date, price |-> price,
                 body_price |-> Format2f(price), test_mode |-> FALSE],
     shown  |-> IF ok THEN "success: Email sent" ELSE "error: Failed to send email",
     raised |-> FALSE]

\* ---- presentation (lines 145-173) ----------------------------------------
IsBuy(row) == row.BuySignal

\* df[df['Buy Signal']][['Close', 'RSI', 'BBL', 'Drawdown']], line 173.
BuyListing(table) ==
    LET buys == SelectSeq(table, IsBuy)
    IN  [i \in 1..Len(buys) |->
            [Date |-> buys[i].Date, Close |-> buys[i].Close, RSI |-> buys[i].RSI,
             BBL |-> buys[i].BBL, Drawdown |-> buys[i].Drawdown]]

\* ---- state ----------------------------------------------------------------
VARIABLES
    pc,          \* where the script is: "idle" between two runs
    runs,        \* script runs started so far
    cache,       \* st.cache_data of get_data: <<>> or <<the table returned>>
    raw,         \* get_data: the table downloaded in this run
    series,      \* get_data: the frame after line 73
    indicators,  \* get_data: the frame after line 83
                 \* (these three are kept until the run ends, so that the
                 \* table can be compared with what it was computed from)
    df,          \* the script's df: <<>> or <<the table get_data returned>>
    event,       \* <<>> or <<the message send_email composed in this run>>
    ui,          \* what the page shows, in order (st.success, st.error)
    chart,       \* <<>> or <<the table plotted by st.plotly_chart>>
    listing,     \* <<>> or <<the rows shown by st.dataframe>>
    transport,   \* the mail transport in this run: "unused", "ok", "failed"
    attempts,    \* calls of send_email since the process started
    signalRuns   \* completed runs whose table ended in a row with the signal

vars == <<pc, runs, cache, raw, series, indicators, df, event, ui, chart,
          listing, transport, attempts, signalRuns>>

Init ==
    /\ pc = "idle"
    /\ runs = 0
    /\ cache = <<>>
    /\ raw = NoTable
    /\ series = <<>>
    /\ indicators = <<>>
    /\ df = <<>>
    /\ event = <<>>
    /\ ui = <<>>
    /\ chart = <<>>
    /\ listing = <<>>
    /\ transport = "unused"
    /\ attempts = 0
    /\ signalRuns = 0

\* A rerun executes the script from the top: the page and the names of the
\* previous run are gone.
FreshPage ==
    /\ event' = <<>>
    /\ ui' = <<>>
    /\ chart' = <<>>
    /\ listing' = <<>>
    /\ transport' = "unused"

\* The script has run to its end: the page stays, get_data's frames are gone.
ScriptEnds ==
    /\ pc' = "idle"
    /\ raw' = NoTable
    /\ series' = <<>>
    /\ indicators' = <<>>

\* Line 131 with an empty cache, line 42: get_data runs and downloads.
Download ==
    /\ pc = "idle"
    /\ runs < MaxRuns
    /\ cache = <<>>
    /\ \E t \in RawTables : raw' = t
    /\ runs' = runs + 1
    /\ df' = <<>>
    /\ FreshPage
    /\ pc' = "downloaded"
    /\ UNCHANGED <<cache, series, indicators, attempts, signalRuns>>

\* A plausible slip: the alert inside the cached function, so that a run
\* served from the cache goes straight to the presentation.
CacheHitSkipsGate ==
    /\ pc = "idle"
    /\ runs < MaxRuns
    /\ cache # <<>>
    /\ cache[1] # <<>>
    /\ runs' = runs + 1
    /\ df' = cache
    /\ FreshPage
    /\ pc' = "gated"
    /\ UNCHANGED <<cache, raw, series, indicators, attempts, signalRuns>>

\* Line 131 with a cached result: get_data's body does not run.
CacheHit ==
    /\ pc = "idle"
    /\ runs < MaxRuns
    /\ cache # <<>>
    /\ runs' = runs + 1
    /\ df' = cache
    /\ FreshPage
    /\ pc' = "returned"
    /\ UNCHANGED <<cache, raw, series, indicators, attempts, signalRuns>>

\* Lines 44-73.  An error leaves get_data and reaches the handler of line 175.
Normalize ==
    /\ pc = "downloaded"
    /\ LET n == Normalized(raw)
       IN  IF n.error # "none"
           THEN /\ ui' = Append(ui, n.error)
                /\ pc' = "except"
                /\ UNCHANGED series
           ELSE /\ series' = n.rows
                /\ pc' = "normalized"
                /\ UNCHANGED ui
    /\ UNCHANGED <<runs, cache, raw, indicators, df, event, chart, listing,
                   transport, attempts, signalRuns>>

\* Lines 75-91.
ComputeIndicators ==
    /\ pc = "normalized"
    /\ indicators' = WithIndicators(series)
    /\ pc' = "computed"
    /\ UNCHANGED <<runs, cache, raw, series, df, event, ui, chart, listing,
                   transport, attempts, signalRuns>>

\* Lines 93-106 and the return into line 131; the result is cached.
Evaluate ==
    /\ pc = "computed"
    /\ df' = <<SignalTable(indicators)>>
    /\ cache' = df'
    /\ pc' = "returned"
    /\ UNCHANGED <<runs, raw, series, indicators, event, ui, chart, listing,
                   transport, attempts, signalRuns>>

\* A plausible slip: reading the first row (iloc[0]) instead of the last.
LatestIsFirst(table) == table[1]

\* latest = df.iloc[-1], line 132, and df.index[-1], line 139.
Latest(table) == table[Len(table)]

IndexLast(table) == table[Len(table)].Date

\* Lines 132-143: latest = df.iloc[-1] raises IndexError on a table without
\* rows; otherwise the alert is sent when the last row's signal is true.
Gate ==
    /\ pc = "returned"
    /\ LET table == df[1]
       IN  IF table = <<>>
           THEN /\ ui' = Append(ui, "IndexError: single positional indexer is out-of-bounds")
                /\ pc' = "except"
                /\ UNCHANGED <<event, transport, attempts>>
           ELSE IF ~Latest(table).BuySignal
           THEN /\ pc' = "gated"
                /\ UNCHANGED <<event, ui, transport, attempts>>
           ELSE \E ok \in BOOLEAN :
                  LET sent == send_email(IndexLast(table), Latest(table).Close, ok)
                  IN  /\ event' = <<sent.msg>>
                      /\ attempts' = attempts + 1
                      /\ transport' = IF ok THEN "ok" ELSE "failed"
                      /\ IF sent.raised
                         THEN /\ ui' = Append(ui, "SMTPException")
                              /\ pc' = "except"
                         ELSE /\ ui' = ui \o <<sent.shown, "success: Buy Signal Triggered">>
                              /\ pc' = "gated"
    /\ UNCHANGED <<runs, cache, raw, series, indicators, df, chart, listing,
                   signalRuns>>

\* Lines 145-173: the chart and the buy-signal listing; the run is complete.
Present ==
    /\ pc = "gated"
    /\ chart' = df
    /\ listing' = <<BuyListing(df[1])>>
    /\ signalRuns' = IF Last(df[1]).BuySignal THEN signalRuns + 1 ELSE signalRuns
    /\ ScriptEnds
    /\ UNCHANGED <<runs, cache, df, event, ui, transport, attempts>>

\* Lines 175-178: the page shows the error and the traceback; the run ends.
HandleError ==
    /\ pc = "except"
    /\ ui' = Append(ui, "error: run failed")
    /\ ScriptEnds
    /\ UNCHANGED <<runs, cache, df, event, chart, listing, transport,
                   attempts, signalRuns>>

Next ==
    \/ Download
    \/ CacheHit
    \/ Normalize
    \/ ComputeIndicators
    \/ Evaluate
    \/ Gate
    \/ Present
    \/ HandleError

Spec == Init /\ [][Next]_vars

\* ==== the claims ==========================================================
\* The table get_data returned to the script in this run (<<>> before that).
Table == IF df = <<>> THEN <<>> ELSE df[1]

\* get_data's body ran in this run and returned: series, indicators and df
\* belong to the same download.
ComputedThisRun == raw # NoTable /\ df # <<>>

\* The run went past the gate without an error.
PastGate == pc = "gated" \/ (pc = "idle" /\ chart # <<>>)

Shown(text) == \E k \in 1..Len(ui) : ui[k] = text

\* ---- C1 -------------------------------------------------------------------
\* C1: in a live run a notification is composed if and only if buy_signal of
\* the last row of the signal table is true.  Whenever one was composed it is
\* a live (not test) message carrying that last row's date and close (the
\* body shows the close to the nearest hundredth), and a run that passed the
\* gate with the last row's buy_signal false composed none.
C1_GateOnLastRow ==
    /\ event # <<>> =>
          /\ Table # <<>>
          /\ Table[Len(Table)].BuySignal
          /\ event[1].date = Table[Len(Table)].Date
          /\ event[1].price = Table[Len(Table)].Close
          /\ 2 * event[1].body_price * Scale
                <= 2 * PERCENT * Table[Len(Table)].Close + Scale
          /\ 2 * event[1].body_price * Scale
                > 2 * PERCENT * Table[Len(Table)].Close - Scale
          /\ event[1].ticker = TICKER
          /\ ~event[1].test_mode
    /\ PastGate => (event # <<>> <=> Table[Len(Table)].BuySignal)

\* A run in which the alert went out for a table whose first row has no signal.
C1_Witness ==
    /\ pc = "gated"
    /\ event # <<>>
    /\ Len(Table) >= 2
    /\ ~Table[1].BuySignal

\* ---- C2 -------------------------------------------------------------------
\* C2: for every row of the signal table, buy_signal is a boolean that is
\* true exactly when rsi14 < 30 and close < bb_lower and drawdown_pct < -20
\* all hold, a null operand counting as a failed condition; so a row on which
\* any single one of the three fails has buy_signal false.
C2_Conjunction ==
    \A i \in 1..Len(Table) :
        LET r == Table[i]
            rsiLow   == r.RSI # NaN /\ r.RSI < RSI_LIMIT * Scale
            belowBand == r.BBL # NaN /\ r.Close # NaN /\ r.Close < r.BBL
            deep     == r.Drawdown # NaN /\ r.Drawdown < DRAWDOWN_LIMIT * Scale
        IN  /\ r.BuySignal \in BOOLEAN
            /\ r.BuySignal <=> (rsiLow /\ belowBand /\ deep)

\* A table with a row where all three hold and a row where the drawdown
\* condition holds and the signal is nevertheless false.
C2_Witness ==
    /\ \E i \in 1..Len(Table) : Table[i].BuySignal
    /\ \E i \in 1..Len(Table) :
          /\ ~Table[i].BuySignal
          /\ Table[i].Drawdown < DRAWDOWN_LIMIT * Scale

WellFormed(table) ==
    /\ "Close" \in Rename(table.labels)
    /\ \A i \in 1..Len(table.rows) :
          /\ table.rows[i].Close # NaN
          /\ table.rows[i].Volume # NaN
    /\ \A i \in 1..(Len(table.rows) - 1) :
          table.rows[i].Date < table.rows[i + 1].Date

\* C4: a run on a well-formed series of fewer than 20 points raises no
\* error: it gets a signal table in which every row has buy_signal false
\* past the gate, and sends no notification.
C4_ShortSeriesNoError ==
    (/\ WellFormed(raw)
     /\ Len(raw.rows) > 0
     /\ Len(raw.rows) < BB_WINDOW)
    => /\ pc # "except"
       /\ \A i \in 1..Len(Table) : ~Table[i].BuySignal
       /\ event = <<>>

\* ---- C5 -------------------------------------------------------------------
\* The downloaded table is empty, has no resolvable close column, or has
\* every close null.
Unavailable(table) ==
    \/ table.rows = <<>>
    \/ \A l \in table.labels : l # "Close" /\ l # "Close_VWRL.AS"
    \/ \A i \in 1..Len(table.rows) : table.rows[i].Close = NaN

DataUnavailable ==
    {"ValueError: Downloaded data is empty",
     "ValueError: 'Close' column is missing",
     "ValueError: All Close values are NaN"}

\* C5: a run that downloaded such a table fails with a data-unavailable
\* error before any indicator is computed; in a run that failed so, during
\* the error handling and after it, no signal table has reached the script
\* or the presentation layer and no notification has been sent.
C5_DataUnavailable ==
    /\ (raw # NoTable /\ Unavailable(raw) /\ pc # "downloaded") =>
          /\ pc = "except"
          /\ ui # <<>>
          /\ ui[1] \in DataUnavailable
          /\ series = <<>>
          /\ indicators = <<>>
    /\ (ui # <<>> /\ ui[1] \in DataUnavailable) =>
          /\ pc \in {"except", "idle"}
          /\ df = <<>>
          /\ cache = <<>>
          /\ chart = <<>>
          /\ listing = <<>>
          /\ event = <<>>
          /\ transport = "unused"

\* A failing run whose table had rows, a close column and only null closes.
C5_Witness ==
    /\ pc = "except"
    /\ raw.rows # <<>>
    /\ "Close" \in raw.labels
    /\ \A i \in 1..Len(raw.rows) : raw.rows[i].Close = NaN

\* ---- C6 -------------------------------------------------------------------
\* C6: whatever the order and the dates of the downloaded rows, the series
\* the indicators are computed on is strictly ascending by date (so without
\* a duplicate date).
C6_SortedUnique ==
    \A i \in 1..(Len(indicators) - 1) :
        indicators[i].Date < indicators[i + 1].Date

\* ---- C7 -------------------------------------------------------------------
NonNullClose(row) == row.Close # NaN

\* C7: the series fed to the indicators consists of exactly the downloaded
\* rows whose close is not null, whatever their other fields.
C7_OnlyNullClosesDropped ==
    pc = "normalized" => series = SelectSeq(raw.rows, NonNullClose)

\* ---- C8 -------------------------------------------------------------------
\* C8: a failure of the mail transport never aborts the run.  The page shows
\* the failure, the run does not enter the error handler, the signal table
\* stays the one get_data returned, and the finished run has plotted that
\* table and listed its buy rows, as after a successful send.
C8_MailFailureIsolated ==
    transport = "failed" =>
        /\ pc \in {"gated", "idle"}
        /\ Shown("error: Failed to send email")
        /\ Shown("success: Buy Signal Triggered")
        /\ ~Shown("error: run failed")
        /\ df = cache
        /\ raw # NoTable => Table = SignalTable(indicators)
        /\ pc = "idle" =>
              /\ chart = df
              /\ listing = <<BuyListing(Table)>>
              /\ Len(listing[1]) >= 1

\* A finished run whose send failed and whose chart is on the page.
C8_Witness ==
    /\ pc = "idle"
    /\ transport = "failed"
    /\ chart # <<>>

\* ---- C9 -------------------------------------------------------------------
\* C9: the gate keeps no state across runs and acts once per run.  Between
\* runs the number of notifications attempted since the process started is
\* the number of completed runs whose last row had buy_signal true, cached
\* table or not; inside a run at most one more has been attempted.
C9_OneAttemptPerSignalRun ==
    /\ pc = "idle" => attempts = signalRuns
    /\ pc # "idle" =>
          attempts = signalRuns + (IF event # <<>> THEN 1 ELSE 0)

\* Two completed runs with the signal, the second one necessarily served
\* from the cache, and two attempts.
C9_Witness ==
    /\ pc = "idle"
    /\ cache # <<>>
    /\ signalRuns >= 2
    /\ attempts = signalRuns

=============================================================================
